---- MODULE Spec2Model ----
(***************************************************************************)
(* Model of the terminal WebSocket bridge of BROCKSTON Studio              *)
(* (backend/main.py, terminal_websocket): one accepted connection, the     *)
(* shell spawned in a PTY, the two coroutines run by asyncio.gather on a   *)
(* single-threaded event loop, and the except/finally cleanup.             *)
(***************************************************************************)
EXTENDS Integers, Sequences, FiniteSets, TLC

\* ---------------------------------------------------------------- bounds
MaxOut == 2        \* bytes the shell writes to the PTY in one session
MaxMsgs == 2       \* frames the client sends in one session

\* ------------------------------------------------------ program constants
ReadSize == 1024   \* process.read(1024)

\* ------------------------------------------------------------ UTF-8 codec
Replacement == 65533          \* U+FFFD, what errors="replace" substitutes

IsCont(b) == b >= 128 /\ b <= 191

\* number of continuation bytes a lead byte announces (0: not a lead byte)
Need(b) ==
  IF b >= 194 /\ b <= 223 THEN 1
  ELSE IF b >= 224 /\ b <= 239 THEN 2
  ELSE IF b >= 240 /\ b <= 244 THEN 3
  ELSE 0

\* admissible range of the byte that follows lead byte b
Lo2(b) == IF b = 224 THEN 160 ELSE IF b = 240 THEN 144 ELSE 128
Hi2(b) == IF b = 237 THEN 159 ELSE IF b = 244 THEN 143 ELSE 191

\* how many of the bytes after the lead byte continue the sequence validly
RECURSIVE ContRun(_, _, _)
ContRun(bs, i, need) ==
  IF i > need \/ i + 1 > Len(bs) THEN i - 1
  ELSE LET c == bs[i + 1] IN
       IF (i = 1 /\ c >= Lo2(bs[1]) /\ c <= Hi2(bs[1])) \/ (i > 1 /\ IsCont(c))
       THEN ContRun(bs, i + 1, need)
       ELSE i - 1

\* code point of a complete sequence of 1 + k bytes at the head of bs
CodePoint(bs, k) ==
  IF k = 1 THEN (bs[1] - 192) * 64 + (bs[2] - 128)
  ELSE IF k = 2 THEN (bs[1] - 224) * 4096 + (bs[2] - 128) * 64 + (bs[3] - 128)
  ELSE (bs[1] - 240) * 262144 + (bs[2] - 128) * 4096 + (bs[3] - 128) * 64
       + (bs[4] - 128)

\* bytes.decode("utf-8", errors="replace"): every maximal invalid or
\* truncated subpart becomes one U+FFFD
RECURSIVE Decode(_)
Decode(bs) ==
  IF bs = <<>> THEN <<>>
  ELSE LET b == Head(bs)
           n == Len(bs)
       IN IF b < 128 THEN <<b>> \o Decode(Tail(bs))
          ELSE IF Need(b) = 0 THEN <<Replacement>> \o Decode(Tail(bs))
          ELSE LET k == ContRun(bs, 1, Need(b)) IN
               IF k = Need(b)
               THEN <<CodePoint(bs, k)>> \o Decode(SubSeq(bs, k + 2, n))
               ELSE <<Replacement>> \o Decode(SubSeq(bs, k + 2, n))

IsSurrogate(c) == c >= 55296 /\ c <= 57343

\* UTF-8 bytes of one code point
EncodeChar(c) ==
  IF c < 128 THEN <<c>>
  ELSE IF c < 2048 THEN <<192 + (c \div 64), 128 + (c % 64)>>
  ELSE IF c < 65536
       THEN <<224 + (c \div 4096), 128 + ((c \div 64) % 64), 128 + (c % 64)>>
  ELSE <<240 + (c \div 262144), 128 + ((c \div 4096) % 64),
         128 + ((c \div 64) % 64), 128 + (c % 64)>>

\* str.encode("utf-8") of a string without lone surrogates
RECURSIVE Encode(_)
Encode(s) == IF s = <<>> THEN <<>> ELSE EncodeChar(Head(s)) \o Encode(Tail(s))

\* str.encode("utf-8") raises UnicodeEncodeError on a lone surrogate
CanEncode(s) == \A i \in 1..Len(s) : ~IsSurrogate(s[i])

IsPrefix(p, s) == Len(p) <= Len(s) /\ SubSeq(s, 1, Len(p)) = p

Min(a, b) == IF a <= b THEN a ELSE b

\* ------------------------------------------------------------ the inputs
\* bytes the shell may write: 'a', and the two bytes of U+00E9
OutBytes == {97, 195, 169}

\* payloads a client may send as one WebSocket text message
TextFrame    == [kind |-> "text",   type |-> "none",   hasData |-> FALSE, isStr |-> FALSE, data |-> <<>>]
ArrayFrame   == [kind |-> "array",  type |-> "none",   hasData |-> FALSE, isStr |-> FALSE, data |-> <<>>]
InputFrame(d) == [kind |-> "object", type |-> "input", hasData |-> TRUE,  isStr |-> TRUE,  data |-> d]
InputNoData  == [kind |-> "object", type |-> "input",  hasData |-> FALSE, isStr |-> FALSE, data |-> <<>>]
InputNumber  == [kind |-> "object", type |-> "input",  hasData |-> TRUE,  isStr |-> FALSE, data |-> <<>>]
ResizeFrame  == [kind |-> "object", type |-> "resize", hasData |-> FALSE, isStr |-> FALSE, data |-> <<>>]
OtherFrame   == [kind |-> "object", type |-> "none",   hasData |-> FALSE, isStr |-> FALSE, data |-> <<>>]

\* Ctrl-C, "a" followed by U+00E9, and a lone surrogate ("\ud800" in JSON)
InputData == {<<3>>, <<97, 233>>, <<55296>>}

ClientFrames ==
  {TextFrame, ArrayFrame, InputNoData, InputNumber, ResizeFrame, OtherFrame}
  \cup {InputFrame(d) : d \in InputData}

\* --------------------------------------------------------------- the state
VARIABLES
  hpc,            \* position of terminal_websocket
  outPc,          \* position of read_from_pty
  inPc,           \* position of read_from_websocket
  spawned,        \* PtyProcess.spawn returned a process
  shellAlive,     \* the child process is running
  reaped,         \* the child's exit status has been collected (waitpid)
  fdOpen,         \* the PTY master descriptor is open
  written,        \* every byte the shell wrote to the PTY, in order
  rdPos,          \* how many of them process.read has returned
  pending,        \* chunk read from the PTY whose send has not completed
  frames,         \* frames sent on the WebSocket, in order
  clientGone,     \* the client closed the connection
  serverClosed,   \* websocket.close() was called
  inbox,          \* client messages not yet received by receive_json
  nClient,        \* number of messages the client has sent
  inputRecv,      \* data of the 'input' frames receive_json returned
  ptyIn,          \* bytes process.write wrote to the PTY
  teardownCount,  \* executions of the finally block
  terminateCount, \* calls of process.terminate
  closeCount,     \* calls of websocket.close
  raisedExc,      \* an exception is propagating out of the handler
  errAttempts,    \* sends of an 'error' frame that were attempted
  ioError,        \* a PTY read or write failed (other than end of stream)
  received        \* messages receive_json has taken from the transport

\* the state of the HTTP endpoints: the filesystem and the last request
VARIABLES
  dirs,           \* resolved paths that are directories
  files,          \* resolved path of every regular file -> its bytes
  req,            \* the last request an endpoint has handled
  resp,           \* the response to it
  resolved,       \* what the last call of resolve_path did
  effect,         \* the filesystem access the last request made
  nReq            \* requests handled so far

termVars == <<hpc, outPc, inPc, spawned, shellAlive, reaped, fdOpen, written,
              rdPos, pending, frames, clientGone, serverClosed, inbox, nClient,
              inputRecv, ptyIn, teardownCount, terminateCount, closeCount,
              raisedExc, errAttempts, ioError, received>>

apiVars == <<dirs, files, req, resp, resolved, effect, nReq>>

vars == <<hpc, outPc, inPc, spawned, shellAlive, reaped, fdOpen, written,
          rdPos, pending, frames, clientGone, serverClosed, inbox, nClient,
          inputRecv, ptyIn, teardownCount, terminateCount, closeCount,
          raisedExc, errAttempts, ioError, received,
          dirs, files, req, resp, resolved, effect, nReq>>

shellVars == <<shellAlive, written>>
clientVars == <<clientGone, inbox, nClient>>
countVars == <<teardownCount, terminateCount, closeCount>>
histVars == <<errAttempts, ioError, received>>

\* unread bytes in the PTY
buf == SubSeq(written, rdPos + 1, Len(written))

\* process.read(1024) is a synchronous call made inside a coroutine: while
\* it waits for data the event loop thread runs nothing else
Blocked == outPc = "read"

OutputFrame(chunk) == [type |-> "output", data |-> Decode(chunk), chunk |-> chunk]
ErrorFrame == [type |-> "error", data |-> <<>>, chunk |-> <<>>]

\* websocket.send_json raises once the connection is gone
SendFails == clientGone \/ serverClosed

\* ------------------------------------------- paths and the filesystem
\* A name is the sequence of its character codes and a path is the
\* sequence of its components below "/": <<W, A>> is "/w/a".
MaxDepth == 2      \* components in the path argument of one request
MaxReq == 2        \* HTTP requests handled in one run

W == <<119>>                 \* "w", the workspace directory
W2 == <<119, 50>>            \* "w2", a sibling whose name extends "w"
E == <<101>>                 \* "e", a directory elsewhere
A == <<97>>                  \* "a", a text file in the workspace
D == <<100>>                 \* "d", a directory in the workspace
L == <<108>>                 \* "l", a symlink in the workspace to /e
S == <<115>>                 \* "s", a file name
N == <<110>>                 \* "n", a name that does not exist
R == <<114>>                 \* "r", the name of a repository
H == <<46, 104>>             \* ".h", a hidden file
DotDot == <<46, 46>>         \* ".."
DotGit == <<46, 103, 105, 116>>                        \* ".git"
PyCache == <<95, 95, 112, 121, 99, 97, 99, 104, 101, 95, 95>>  \* "__pycache__"
Venv == <<118, 101, 110, 118>>                         \* "venv"

\* WORKSPACE_ROOT = Path(os.getenv("BROCKSTON_WORKSPACE", ...)): "/w"
WORKSPACE_ROOT == <<W>>

\* get_workspace_root()
get_workspace_root == WORKSPACE_ROOT

\* str(path)
RECURSIVE Str(_)
Str(p) ==
  IF p = <<>> THEN <<47>>
  ELSE IF Len(p) = 1 THEN <<47>> \o p[1]
  ELSE Str(SubSeq(p, 1, Len(p) - 1)) \o <<47>> \o p[Len(p)]

\* the path argument of a request: absolute or relative, its components
PathNames == {DotDot, W, W2, E, S, A, D, L, N}
PathArgs ==
  [abs : BOOLEAN,
   comps : UNION {[1..n -> PathNames] : n \in 0..MaxDepth}]

\* WORKSPACE_ROOT / p: an absolute right operand replaces the left one
Join(root, arg) == IF arg.abs THEN arg.comps ELSE root \o arg.comps

\* the symbolic links of the filesystem
IsLink(p) == p = <<W, L>>
LinkTarget(p) == <<E>>

\* Path.resolve(): ".." drops the last component, a symlink is replaced by
\* its target, a component that does not exist is kept
RECURSIVE ResolveFrom(_, _)
ResolveFrom(done, rest) ==
  IF rest = <<>> THEN done
  ELSE IF Head(rest) = DotDot
       THEN ResolveFrom(IF done = <<>> THEN <<>>
                        ELSE SubSeq(done, 1, Len(done) - 1), Tail(rest))
       ELSE LET q == Append(done, Head(rest)) IN
            ResolveFrom(IF IsLink(q) THEN LinkTarget(q) ELSE q, Tail(rest))

Resolve(p) == ResolveFrom(<<>>, p)

\* a resolve_path whose check compares the strings of the two paths
resolve_path_Startswith(arg) ==
  LET p == Resolve(Join(WORKSPACE_ROOT, arg)) IN
  [called |-> TRUE, ok |-> IsPrefix(Str(WORKSPACE_ROOT), Str(p)), path |-> p]

\* resolve_path: join, resolve, then p.relative_to(WORKSPACE_ROOT), which
\* compares component by component; ok = FALSE stands for the ValueError
resolve_path(arg) ==
  LET p == Resolve(Join(WORKSPACE_ROOT, arg)) IN
  [called |-> TRUE, ok |-> IsPrefix(WORKSPACE_ROOT, p), path |-> p]

NotResolved == [called |-> FALSE, ok |-> FALSE, path |-> <<>>]

\* the filesystem when the server starts: config.py has created the
\* workspace directory
InitDirs == {<<>>, <<W>>, <<W, D>>, <<W2>>, <<E>>}
InitFiles ==
  (<<W, A>> :> <<97>>) @@ (<<W, H>> :> <<97>>) @@ (<<W, D, S>> :> <<255>>)
    @@ (<<W2, S>> :> <<97>>)

NoArg == [abs |-> FALSE, comps |-> <<>>]
NoUrl == [scheme |-> "", netloc |-> <<>>, last |-> <<>>]
NoFolder == [given |-> FALSE, name |-> <<>>]
NoReq == [op |-> "none", path |-> NoArg, content |-> <<>>, url |-> NoUrl,
          folder |-> NoFolder]
NoResp == [status |-> 0, detail |-> "", content |-> <<>>, files |-> <<>>]
NoEffect == [kind |-> "none", path |-> <<>>]

ApiInit ==
  /\ dirs = InitDirs
  /\ files = InitFiles
  /\ req = NoReq
  /\ resp = NoResp
  /\ resolved = NotResolved
  /\ effect = NoEffect
  /\ nReq = 0

\* state after websocket.accept(), before the try block
Init ==
  /\ hpc = "spawn"
  /\ outPc = "idle"
  /\ inPc = "idle"
  /\ spawned = FALSE
  /\ shellAlive = FALSE
  /\ reaped = FALSE
  /\ fdOpen = FALSE
  /\ written = <<>>
  /\ rdPos = 0
  /\ pending = <<>>
  /\ frames = <<>>
  /\ clientGone = FALSE
  /\ serverClosed = FALSE
  /\ inbox = <<>>
  /\ nClient = 0
  /\ inputRecv = <<>>
  /\ ptyIn = <<>>
  /\ teardownCount = 0
  /\ terminateCount = 0
  /\ closeCount = 0
  /\ raisedExc = FALSE
  /\ errAttempts = 0
  /\ ioError = FALSE
  /\ received = <<>>
  /\ ApiInit


\* ------------------------------------------------------- the environment
\* the shell (or the tty echo) puts one byte on the PTY
ShellWrite ==
  /\ shellAlive
  /\ Len(written) < MaxOut
  /\ \E b \in OutBytes : written' = Append(written, b)
  /\ UNCHANGED <<hpc, outPc, inPc, spawned, shellAlive, reaped, fdOpen, rdPos,
                 pending, frames, clientVars, serverClosed, inputRecv, ptyIn,
                 countVars, raisedExc, histVars, apiVars>>

\* the shell process exits on its own
ShellExit ==
  /\ shellAlive
  /\ shellAlive' = FALSE
  /\ UNCHANGED <<hpc, outPc, inPc, spawned, reaped, fdOpen, written, rdPos,
                 pending, frames, clientVars, serverClosed, inputRecv, ptyIn,
                 countVars, raisedExc, histVars, apiVars>>

\* the client sends one text message
ClientSend ==
  /\ ~clientGone
  /\ ~serverClosed
  /\ nClient < MaxMsgs
  /\ \E m \in ClientFrames : inbox' = Append(inbox, m)
  /\ nClient' = nClient + 1
  /\ UNCHANGED <<hpc, outPc, inPc, spawned, shellAlive, reaped, fdOpen,
                 written, rdPos, pending, frames, clientGone, serverClosed,
                 inputRecv, ptyIn, countVars, raisedExc, histVars, apiVars>>

\* the client closes the connection
ClientDisconnect ==
  /\ ~clientGone
  /\ ~serverClosed
  /\ clientGone' = TRUE
  /\ UNCHANGED <<hpc, outPc, inPc, spawned, shellAlive, reaped, fdOpen,
                 written, rdPos, pending, frames, serverClosed, inbox, nClient,
                 inputRecv, ptyIn, countVars, raisedExc, histVars, apiVars>>

\* ------------------------------------------------------------ the handler
\* ptyprocess.PtyProcess.spawn([shell], cwd, env); on success gather()
\* schedules both coroutines, read_from_pty first
Spawn ==
  /\ hpc = "spawn"
  /\ \E ok \in BOOLEAN :
       IF ok
       THEN /\ spawned' = TRUE
            /\ shellAlive' = TRUE
            /\ fdOpen' = TRUE
            /\ hpc' = "gather"
            /\ outPc' = "start"
            /\ inPc' = "recv"
       ELSE /\ hpc' = "except"
            /\ UNCHANGED <<spawned, shellAlive, fdOpen, outPc, inPc>>
  /\ UNCHANGED <<reaped, written, rdPos, pending, frames, clientVars,
                 serverClosed, inputRecv, ptyIn, countVars, raisedExc, histVars, apiVars>>

\* while process.isalive(): a non-blocking waitpid, which reaps a child
\* that has exited
OutCheck ==
  /\ outPc \in {"start", "check"}
  /\ ~Blocked
  /\ IF shellAlive
     THEN outPc' = "read" /\ UNCHANGED reaped
     ELSE outPc' = "done" /\ reaped' = TRUE
  /\ UNCHANGED <<hpc, inPc, spawned, shellVars, fdOpen, rdPos, pending, frames,
                 clientVars, serverClosed, inputRecv, ptyIn, countVars,
                 raisedExc, histVars, apiVars>>

\* a read that starts over from the first byte instead of the unread ones
ReadChunk_Reread == SubSeq(written, 1, Min(Len(written), ReadSize))

\* what process.read(1024) returns when the PTY holds data
ReadChunk == SubSeq(buf, 1, Min(Len(buf), ReadSize))

\* output = process.read(1024): returns once the PTY holds data, raises
\* EOFError once the child has exited and nothing is left
OutRead ==
  /\ outPc = "read"
  /\ \/ /\ buf # <<>>
        /\ pending' = ReadChunk
        /\ rdPos' = rdPos + Len(ReadChunk)
        /\ outPc' = "send"
     \/ /\ buf = <<>>
        /\ ~shellAlive
        /\ outPc' = "done"
        /\ UNCHANGED <<pending, rdPos>>
  /\ UNCHANGED <<hpc, inPc, spawned, shellVars, reaped, fdOpen, frames,
                 clientVars, serverClosed, inputRecv, ptyIn, countVars,
                 raisedExc, histVars, apiVars>>

\* a read error that is reported to the client, after which the loop goes on
OutReadError_Notify ==
  /\ outPc = "read"
  /\ outPc' = "sleep"
  /\ ioError' = TRUE
  /\ frames' = IF SendFails THEN frames ELSE Append(frames, ErrorFrame)
  /\ UNCHANGED <<hpc, inPc, spawned, shellVars, reaped, fdOpen, rdPos, pending,
                 clientVars, serverClosed, inputRecv, ptyIn, countVars,
                 raisedExc, errAttempts, received, apiVars>>

\* process.read fails with an OSError other than end of stream: the inner
\* "except Exception" logs it and breaks
OutReadError ==
  /\ outPc = "read"
  /\ outPc' = "done"
  /\ ioError' = TRUE
  /\ UNCHANGED <<hpc, inPc, spawned, shellVars, reaped, fdOpen, rdPos, pending,
                 frames, clientVars, serverClosed, inputRecv, ptyIn, countVars,
                 raisedExc, errAttempts, received, apiVars>>

\* a send that gives up on a slow transport and drops the chunk
OutSend_DropSlow ==
  /\ outPc = "send"
  /\ ~Blocked
  /\ IF SendFails
     THEN outPc' = "done" /\ UNCHANGED frames
     ELSE \E slow \in BOOLEAN :
            /\ outPc' = "sleep"
            /\ frames' = IF slow THEN frames
                         ELSE Append(frames, OutputFrame(pending))
  /\ pending' = <<>>
  /\ UNCHANGED <<hpc, inPc, spawned, shellVars, reaped, fdOpen, rdPos,
                 clientVars, serverClosed, inputRecv, ptyIn, countVars,
                 raisedExc, histVars, apiVars>>

\* a send whose decode is strict: a chunk that is not valid UTF-8 raises
\* and the inner "except Exception" breaks
OutSend_Strict ==
  /\ outPc = "send"
  /\ ~Blocked
  /\ IF SendFails \/ Encode(Decode(pending)) # pending
     THEN outPc' = "done" /\ UNCHANGED frames
     ELSE outPc' = "sleep" /\ frames' = Append(frames, OutputFrame(pending))
  /\ pending' = <<>>
  /\ UNCHANGED <<hpc, inPc, spawned, shellVars, reaped, fdOpen, rdPos,
                 clientVars, serverClosed, inputRecv, ptyIn, countVars,
                 raisedExc, histVars, apiVars>>

\* a send that is retried until it succeeds: a failed send keeps the flow
\* at the send
OutSend_Retry ==
  /\ outPc = "send"
  /\ ~Blocked
  /\ IF SendFails
     THEN UNCHANGED <<outPc, frames, pending>>
     ELSE /\ outPc' = "sleep"
          /\ frames' = Append(frames, OutputFrame(pending))
          /\ pending' = <<>>
  /\ UNCHANGED <<hpc, inPc, spawned, shellVars, reaped, fdOpen, rdPos,
                 clientVars, serverClosed, inputRecv, ptyIn, countVars,
                 raisedExc, histVars, apiVars>>

\* await websocket.send_json({"type": "output", "data": output.decode(...)});
\* a failed send is caught by the inner "except Exception", which breaks
OutSend ==
  /\ outPc = "send"
  /\ ~Blocked
  /\ IF SendFails
     THEN outPc' = "done" /\ UNCHANGED frames
     ELSE outPc' = "sleep" /\ frames' = Append(frames, OutputFrame(pending))
  /\ pending' = <<>>
  /\ UNCHANGED <<hpc, inPc, spawned, shellVars, reaped, fdOpen, rdPos,
                 clientVars, serverClosed, inputRecv, ptyIn, countVars,
                 raisedExc, histVars, apiVars>>

\* await asyncio.sleep(0.01)
OutSleep ==
  /\ outPc = "sleep"
  /\ ~Blocked
  /\ outPc' = "check"
  /\ UNCHANGED <<hpc, inPc, spawned, shellVars, reaped, fdOpen, rdPos, pending,
                 frames, clientVars, serverClosed, inputRecv, ptyIn, countVars,
                 raisedExc, histVars, apiVars>>

\* message.get("data", "")
DataOf(m) == IF m.hasData THEN m.data ELSE <<>>

\* caret notation for control characters
RECURSIVE EscapeCtl(_)
EscapeCtl(s) ==
  IF s = <<>> THEN <<>>
  ELSE (IF Head(s) < 32 THEN <<94, Head(s) + 64>> ELSE <<Head(s)>>)
       \o EscapeCtl(Tail(s))

\* a write that escapes control characters instead of passing them through
WriteBytes_Escaped(m) == Encode(EscapeCtl(DataOf(m)))

\* the bytes handed to process.write for an 'input' frame
WriteBytes(m) == Encode(DataOf(m))

\* a dispatch that looks the type up in a table of handlers and raises on
\* a type it does not know
FrameRaises_UnknownType(m) ==
  \/ m.kind # "object"
  \/ m.type = "none"
  \/ /\ m.type = "input"
     /\ \/ m.hasData /\ ~m.isStr
        \/ ~CanEncode(DataOf(m))

\* a dispatch that reads message["cols"] of a 'resize' frame and raises
FrameRaises_Resize(m) ==
  \/ m.kind # "object"
  \/ m.type = "resize"
  \/ /\ m.type = "input"
     /\ \/ m.hasData /\ ~m.isStr
        \/ ~CanEncode(DataOf(m))

\* the frame makes the loop body raise: receive_json cannot parse it,
\* message.get does not exist, data has no encode, or encode fails
FrameRaises(m) ==
  \/ m.kind # "object"
  \/ /\ m.type = "input"
     /\ \/ m.hasData /\ ~m.isStr
        \/ ~CanEncode(DataOf(m))

\* one iteration of read_from_websocket: receive_json, then for an 'input'
\* frame process.write; any exception ends the coroutine. The event loop
\* runs ready tasks in the order gather created them, so the first
\* iteration comes after read_from_pty has run up to its first await.
InRecv ==
  /\ inPc = "recv"
  /\ outPc # "start"
  /\ ~Blocked
  /\ \/ /\ inbox # <<>>
        /\ LET m == Head(inbox) IN
           /\ inbox' = Tail(inbox)
           /\ inputRecv' = IF m.kind = "object" /\ m.type = "input"
                              /\ (m.hasData => m.isStr)
                           THEN Append(inputRecv, DataOf(m))
                           ELSE inputRecv
           /\ received' = Append(received, m)
           /\ IF FrameRaises(m)
              THEN inPc' = "done" /\ UNCHANGED <<ptyIn, ioError>>
              ELSE IF m.type = "input"
              THEN \E ok \in BOOLEAN :
                     IF ok
                     THEN /\ ptyIn' = ptyIn \o WriteBytes(m)
                          /\ UNCHANGED <<inPc, ioError>>
                     ELSE /\ inPc' = "done"
                          /\ ioError' = TRUE
                          /\ UNCHANGED ptyIn
              ELSE UNCHANGED <<inPc, ptyIn, ioError>>
     \/ /\ inbox = <<>>
        /\ clientGone
        /\ inPc' = "done"
        /\ UNCHANGED <<inbox, inputRecv, ptyIn, ioError, received>>
  /\ UNCHANGED <<hpc, outPc, spawned, shellVars, reaped, fdOpen, rdPos,
                 pending, frames, clientGone, nClient, serverClosed, countVars,
                 raisedExc, errAttempts, apiVars>>

\* a join that returns as soon as either coroutine has returned
GatherDone_First ==
  /\ hpc = "gather"
  /\ outPc = "done" \/ inPc = "done"
  /\ hpc' = "finally"
  /\ UNCHANGED <<outPc, inPc, spawned, shellVars, reaped, fdOpen, rdPos,
                 pending, frames, clientVars, serverClosed, inputRecv, ptyIn,
                 countVars, raisedExc, histVars, apiVars>>

\* await asyncio.gather(read_from_pty(), read_from_websocket()) returns
\* when both coroutines have returned
GatherDone ==
  /\ hpc = "gather"
  /\ outPc = "done"
  /\ inPc = "done"
  /\ hpc' = "finally"
  /\ UNCHANGED <<outPc, inPc, spawned, shellVars, reaped, fdOpen, rdPos,
                 pending, frames, clientVars, serverClosed, inputRecv, ptyIn,
                 countVars, raisedExc, histVars, apiVars>>

\* an except clause that only logs
ExceptSend_LogOnly ==
  /\ hpc = "except"
  /\ hpc' = "finally"
  /\ UNCHANGED <<outPc, inPc, spawned, shellVars, reaped, fdOpen, rdPos,
                 pending, frames, clientVars, serverClosed, inputRecv, ptyIn,
                 countVars, raisedExc, histVars, apiVars>>

\* except Exception: await websocket.send_json({"type": "error", ...});
\* if the send raises, the exception leaves the handler after the finally
ExceptSend ==
  /\ hpc = "except"
  /\ IF SendFails
     THEN raisedExc' = TRUE /\ UNCHANGED frames
     ELSE frames' = Append(frames, ErrorFrame) /\ UNCHANGED raisedExc
  /\ errAttempts' = errAttempts + 1
  /\ hpc' = "finally"
  /\ UNCHANGED <<outPc, inPc, spawned, shellVars, reaped, fdOpen, rdPos,
                 pending, clientVars, serverClosed, inputRecv, ptyIn,
                 countVars, ioError, received, apiVars>>

\* a cleanup whose first step is not wrapped in try/except: with no process
\* bound the NameError leaves the handler and the close is skipped
FinallyTerminate_Unguarded ==
  /\ hpc = "finally"
  /\ teardownCount' = teardownCount + 1
  /\ IF ~spawned
     THEN /\ hpc' = "raised"
          /\ raisedExc' = TRUE
          /\ UNCHANGED <<shellAlive, reaped, terminateCount>>
     ELSE /\ hpc' = "close"
          /\ UNCHANGED raisedExc
          /\ IF shellAlive
             THEN /\ shellAlive' = FALSE
                  /\ reaped' = TRUE
                  /\ terminateCount' = terminateCount + 1
             ELSE /\ reaped' = TRUE
                  /\ UNCHANGED <<shellAlive, terminateCount>>
  /\ UNCHANGED <<outPc, inPc, spawned, written, fdOpen, rdPos, pending, frames,
                 clientVars, serverClosed, inputRecv, ptyIn, closeCount,
                 histVars, apiVars>>

\* a cleanup that asks a live shell to leave by writing Ctrl-D to the PTY
\* before terminating it
FinallyTerminate_WritesEof ==
  /\ hpc = "finally"
  /\ teardownCount' = teardownCount + 1
  /\ IF ~spawned
     THEN UNCHANGED <<shellAlive, reaped, terminateCount, ptyIn>>
     ELSE IF shellAlive
     THEN /\ ptyIn' = Append(ptyIn, 4)
          /\ shellAlive' = FALSE
          /\ reaped' = TRUE
          /\ terminateCount' = terminateCount + 1
     ELSE /\ reaped' = TRUE
          /\ UNCHANGED <<shellAlive, terminateCount, ptyIn>>
  /\ hpc' = "close"
  /\ UNCHANGED <<outPc, inPc, spawned, written, fdOpen, rdPos, pending, frames,
                 clientVars, serverClosed, inputRecv, closeCount,
                 raisedExc, histVars, apiVars>>

\* a cleanup that only terminates a live child and never polls one that
\* has already exited
FinallyTerminate_NoReap ==
  /\ hpc = "finally"
  /\ teardownCount' = teardownCount + 1
  /\ IF spawned /\ shellAlive
     THEN /\ shellAlive' = FALSE
          /\ reaped' = TRUE
          /\ terminateCount' = terminateCount + 1
     ELSE UNCHANGED <<shellAlive, reaped, terminateCount>>
  /\ hpc' = "close"
  /\ UNCHANGED <<outPc, inPc, spawned, written, fdOpen, rdPos, pending, frames,
                 clientVars, serverClosed, inputRecv, ptyIn, closeCount,
                 raisedExc, histVars, apiVars>>

\* finally, first try: if process.isalive(): process.terminate(force=True).
\* isalive() reaps a child that has exited; terminate(force=True) signals
\* up to SIGKILL and reaps. With no process bound the NameError is swallowed.
FinallyTerminate ==
  /\ hpc = "finally"
  /\ teardownCount' = teardownCount + 1
  /\ IF ~spawned
     THEN UNCHANGED <<shellAlive, reaped, terminateCount>>
     ELSE IF shellAlive
     THEN /\ shellAlive' = FALSE
          /\ reaped' = TRUE
          /\ terminateCount' = terminateCount + 1
     ELSE /\ reaped' = TRUE
          /\ UNCHANGED <<shellAlive, terminateCount>>
  /\ hpc' = "close"
  /\ UNCHANGED <<outPc, inPc, spawned, written, fdOpen, rdPos, pending, frames,
                 clientVars, serverClosed, inputRecv, ptyIn, closeCount,
                 raisedExc, histVars, apiVars>>

\* a close that first tells the client the session is over
FinallyClose_Goodbye ==
  /\ hpc = "close"
  /\ closeCount' = closeCount + 1
  /\ serverClosed' = TRUE
  /\ frames' = IF SendFails THEN frames ELSE Append(frames, ErrorFrame)
  /\ hpc' = IF raisedExc THEN "raised" ELSE "done"
  /\ UNCHANGED <<outPc, inPc, spawned, shellVars, reaped, fdOpen, rdPos,
                 pending, clientVars, inputRecv, ptyIn, teardownCount,
                 terminateCount, raisedExc, histVars, apiVars>>

\* a close whose failure on a dead connection re-enters the cleanup
FinallyClose_Retry ==
  /\ hpc = "close"
  /\ closeCount' = closeCount + 1
  /\ serverClosed' = TRUE
  /\ hpc' = IF clientGone /\ ~serverClosed THEN "finally"
            ELSE IF raisedExc THEN "raised" ELSE "done"
  /\ UNCHANGED <<outPc, inPc, spawned, shellVars, reaped, fdOpen, rdPos,
                 pending, frames, clientVars, inputRecv, ptyIn, teardownCount,
                 terminateCount, raisedExc, histVars, apiVars>>

\* finally, second try: await websocket.close(); then the handler returns
\* or the pending exception propagates
FinallyClose ==
  /\ hpc = "close"
  /\ closeCount' = closeCount + 1
  /\ serverClosed' = TRUE
  /\ hpc' = IF raisedExc THEN "raised" ELSE "done"
  /\ UNCHANGED <<outPc, inPc, spawned, shellVars, reaped, fdOpen, rdPos,
                 pending, frames, clientVars, inputRecv, ptyIn, teardownCount,
                 terminateCount, raisedExc, histVars, apiVars>>

Next ==
  \/ ShellWrite
  \/ ShellExit
  \/ ClientSend
  \/ ClientDisconnect
  \/ Spawn
  \/ OutCheck
  \/ OutRead
  \/ OutReadError
  \/ OutSend
  \/ OutSleep
  \/ InRecv
  \/ GatherDone
  \/ ExceptSend
  \/ FinallyTerminate
  \/ FinallyClose

Spec == Init /\ [][Next]_vars

\* the event loop runs every coroutine step that is ready; the shell, the
\* client and I/O faults are under no obligation
Fairness ==
  /\ WF_vars(Spawn)
  /\ WF_vars(OutCheck)
  /\ WF_vars(OutRead)
  /\ WF_vars(OutSend)
  /\ WF_vars(OutSleep)
  /\ WF_vars(InRecv)
  /\ WF_vars(GatherDone)
  /\ WF_vars(ExceptSend)
  /\ WF_vars(FinallyTerminate)
  /\ WF_vars(FinallyClose)

FairSpec == Spec /\ Fairness

TypeOK ==
  /\ hpc \in {"spawn", "gather", "except", "finally", "close", "done", "raised"}
  /\ outPc \in {"idle", "start", "check", "read", "send", "sleep", "done"}
  /\ inPc \in {"idle", "recv", "done"}
  /\ rdPos \in 0..Len(written)


\* ------------------------------------------------------- derived histories
\* concatenation of the data of the 'output' frames in fs
RECURSIVE OutputText(_)
OutputText(fs) ==
  IF fs = <<>> THEN <<>>
  ELSE (IF Head(fs).type = "output" THEN Head(fs).data ELSE <<>>)
       \o OutputText(Tail(fs))

\* concatenation of the raw chunks the 'output' frames in fs were made from
RECURSIVE OutputChunks(_)
OutputChunks(fs) ==
  IF fs = <<>> THEN <<>>
  ELSE (IF Head(fs).type = "output" THEN Head(fs).chunk ELSE <<>>)
       \o OutputChunks(Tail(fs))

\* UTF-8 bytes of a sequence of strings, concatenated in order
RECURSIVE EncodeAll(_)
EncodeAll(ss) ==
  IF ss = <<>> THEN <<>> ELSE Encode(Head(ss)) \o EncodeAll(Tail(ss))

Front(s) == SubSeq(s, 1, Len(s) - 1)

NumOutput == Cardinality({i \in 1..Len(frames) : frames[i].type = "output"})

\* the finally block has completed
Returned == hpc \in {"done", "raised"}

\* ------------------------------------------------------------------ claims

\* C1: once read_from_pty has stopped, the concatenated data of the
\* 'output' frames equals everything the shell wrote to the PTY.
C1_NoLoss == outPc = "done" => Encode(OutputText(frames)) = written

\* C2 as stated: at all times the concatenated data of the 'output' frames
\* sent so far is a prefix of the bytes the shell has written.
C2_PrefixOfBytes == IsPrefix(Encode(OutputText(frames)), written)

\* C2 (amended): the 'output' frames sent so far carry, in order, the lossy
\* UTF-8 decoding of consecutive non-empty chunks of the bytes written, and
\* the concatenation of those chunks is a prefix of the bytes written.
C2_ChunksInOrder ==
  /\ IsPrefix(OutputChunks(frames), written)
  /\ \A i \in 1..Len(frames) :
       frames[i].type = "output" =>
         /\ frames[i].chunk # <<>>
         /\ frames[i].data = Decode(frames[i].chunk)

\* two chunks were forwarded while the input flow wrote to the PTY between
C2_Witness == NumOutput = 2 /\ ptyIn # <<>> /\ Replacement \in {OutputText(frames)[i] : i \in 1..Len(OutputText(frames))}

\* C3 as stated: the bytes written to the PTY equal the concatenation, in
\* arrival order, of the data of the 'input' frames received.
C3_AllInputWritten == ptyIn = EncodeAll(inputRecv)

\* C3 (amended): the bytes written to the PTY equal the concatenated UTF-8
\* encodings of the data of the 'input' frames received, in arrival order,
\* except that the last received frame contributes nothing when its data
\* cannot be encoded or its write fails, which ends the input flow.
C3_InputFidelity ==
  \/ ptyIn = EncodeAll(inputRecv)
  \/ /\ inPc = "done"
     /\ inputRecv # <<>>
     /\ ptyIn = EncodeAll(Front(inputRecv))

\* Ctrl-C and a multi-byte character went through, in two frames
C3_Witness == inputRecv = <<(<<3>>), (<<97, 233>>)>> /\ ptyIn = <<3, 97, 195, 169>>

\* a payload the protocol calls malformed
Malformed(m) ==
  \/ m.kind # "object"
  \/ m.type = "input" /\ m.hasData /\ ~m.isStr

\* C4: receiving a malformed frame discards that frame only; the input
\* flow keeps waiting for the next frame.
C4_MalformedDropped ==
  [][(inPc = "recv" /\ inbox # <<>> /\ inbox' = Tail(inbox)
        /\ Malformed(Head(inbox)))
      => (inPc' = "recv" /\ ptyIn' = ptyIn)]_vars

\* C5: while the output flow waits for PTY data with the shell alive and
\* silent, a frame that has arrived can be received by the input flow.
C5_NoStarvation ==
  (hpc = "gather" /\ outPc = "read" /\ buf = <<>> /\ shellAlive
     /\ inPc = "recv" /\ inbox # <<>>)
  => ENABLED InRecv

\* C6: after the client has closed the transport the session is eventually
\* torn down (shell terminated, transport closed by the server).
C6_DisconnectTeardown ==
  clientGone ~> (Returned /\ ~shellAlive /\ serverClosed)

\* C7: after the shell has exited the session eventually reaches its closed
\* state, whatever the client does.
C7_ExitClosed ==
  (spawned /\ ~shellAlive) ~> (Returned /\ serverClosed)

\* C8: the cleanup step runs at most once per connection and the shell is
\* terminated at most once.
C8_TeardownOnce == teardownCount <= 1 /\ terminateCount <= 1

\* cleanup after a disconnect and an output-flow failure, shell still alive
C8_Witness ==
  Returned /\ spawned /\ clientGone /\ teardownCount = 1 /\ terminateCount = 1

\* C9: once the cleanup of a spawned session has returned, the child is
\* not alive and has been reaped.
C9_NoZombie == (Returned /\ spawned) => (~shellAlive /\ reaped)

\* the handler returned for a shell that exited on its own after output
\* was forwarded
C9_Witness ==
  Returned /\ spawned /\ terminateCount = 0 /\ frames # <<>>

\* C10: once the cleanup of a spawned session has returned, the PTY device
\* handle is closed.
C10_FdClosed == (Returned /\ spawned) => ~fdOpen


\* s ends with t
IsSuffix(t, s) ==
  Len(t) <= Len(s) /\ SubSeq(s, Len(s) - Len(t) + 1, Len(s)) = t

\* the chunk is not well-formed UTF-8: decoding it loses something
InvalidUtf8(bs) == Encode(Decode(bs)) # bs

Contains(s, x) == \E i \in 1..Len(s) : s[i] = x

\* C11: when spawning the shell fails, exactly one 'error' frame is
\* attempted, the transport is then closed, neither flow is started, no
\* 'output' frame is sent and no child process exists.
C11_SpawnFailure ==
  /\ (~spawned /\ hpc \in {"finally", "close", "done", "raised"}) =>
       /\ errAttempts = 1
       /\ outPc = "idle"
       /\ inPc = "idle"
       /\ NumOutput = 0
       /\ Len(frames) <= 1
       /\ ptyIn = <<>>
       /\ ~shellAlive
       /\ ~fdOpen
  /\ (~spawned /\ Returned) => (serverClosed /\ closeCount = 1)
  /\ (~spawned /\ hpc \in {"spawn", "except", "finally", "close"}) =>
       ~serverClosed

\* the spawn failed, the client got the error frame, the handler returned
C11_Witness == hpc = "done" /\ ~spawned /\ frames = <<ErrorFrame>> /\ serverClosed

\* C12: after a PTY read or write has failed the session is eventually
\* torn down, whatever the shell and the client do.
C12_IoErrorFatal == ioError ~> (Returned /\ ~shellAlive /\ serverClosed)

\* C13: when the transport is closed after a fatal condition (spawn
\* failure, PTY read or write error), a send of an 'error' frame was
\* attempted before.
C13_FatalNotified ==
  (serverClosed /\ (ioError \/ ~spawned)) => errAttempts >= 1

\* C14: the handler never ends with an exception propagating out of it, in
\* particular not when the send of the 'error' frame fails.
C14_NoSecondaryError == hpc # "raised"

\* C15: at most one chunk is read and unsent, no read happens while it is
\* pending, and while the output flow runs every chunk read is either sent
\* or the pending one.
C15_Backpressure ==
  /\ pending # <<>> => outPc = "send"
  /\ outPc \in {"start", "check", "read", "send", "sleep"} =>
       OutputChunks(frames) \o pending = SubSeq(written, 1, rdPos)

\* a chunk waits for its send while the PTY already holds more data and
\* the input flow has run
C15_Witness ==
  outPc = "send" /\ pending # <<>> /\ buf # <<>> /\ received # <<>>

\* C16: receiving a 'resize' frame leaves the input flow waiting, writes
\* nothing to the PTY and changes nothing else; an 'input' frame received
\* right after it is written to the PTY unless its write fails.
C16_ResizeAccepted ==
  /\ [][(received' = Append(received, ResizeFrame)) =>
          /\ inPc' = "recv"
          /\ UNCHANGED <<hpc, outPc, spawned, shellAlive, reaped, fdOpen,
                         written, rdPos, pending, frames, clientGone,
                         serverClosed, inputRecv, ptyIn, countVars, raisedExc,
                         errAttempts, ioError>>]_vars
  /\ [](\A i \in 1..(Len(received) - 1) :
          (/\ received[i] = ResizeFrame
           /\ i + 1 = Len(received)
           /\ received[i + 1].type = "input"
           /\ ~FrameRaises(received[i + 1])
           /\ ~ioError)
          => IsSuffix(WriteBytes(received[i + 1]), ptyIn))

\* a resize was received and the Ctrl-C sent after it reached the PTY
C16_Witness ==
  received = <<ResizeFrame, InputFrame(<<3>>)>> /\ ptyIn = <<3>> /\ inPc = "recv"

\* C17: the PTY is written only by a step of the input flow and read only
\* by a step of the output flow, both while gather is running.
C17_SingleWriterReader ==
  [][/\ ptyIn' # ptyIn =>
          (hpc = "gather" /\ inPc = "recv" /\ received' # received
             /\ UNCHANGED <<hpc, outPc, rdPos>>)
     /\ rdPos' # rdPos =>
          (hpc = "gather" /\ outPc = "read" /\ outPc' = "send"
             /\ UNCHANGED <<hpc, inPc, ptyIn>>)]_vars

\* both directions were used and the handler has cleaned up a live shell
C17_Witness == Returned /\ ptyIn # <<>> /\ rdPos > 0 /\ terminateCount = 1

\* C18: once the cleanup has run, nothing is read from or written to the
\* PTY, no frame is sent, and the handler and both flows stay stopped.
C18_ClosedAbsorbing ==
  [][teardownCount >= 1 =>
       /\ UNCHANGED <<rdPos, ptyIn, frames, outPc, inPc, pending, received>>
       /\ hpc' \in {"close", "done", "raised"}
       /\ (Returned => hpc' = hpc)]_vars

\* the handler returned while the PTY and the transport still held data
C18_Witness == Returned /\ spawned /\ buf # <<>> /\ inbox # <<>>

\* C19: the cleanup of a spawned session starts only after the client has
\* gone, the shell has exited or a PTY read or write has failed.
C19_NoSpontaneousTeardown ==
  (spawned /\ hpc = "finally") => (clientGone \/ ~shellAlive \/ ioError)

\* cleanup starts for a live shell because the client went away
C19_Witness ==
  hpc = "finally" /\ spawned /\ shellAlive /\ clientGone /\ ~ioError

\* C20: a chunk that is not valid UTF-8 is still sent as an 'output' frame,
\* with U+FFFD in place of the invalid part and its ASCII bytes kept, and
\* the output flow goes on to its next iteration.
C20_InvalidChunkSent ==
  [][(outPc = "send" /\ outPc' # outPc /\ InvalidUtf8(pending) /\ ~SendFails) =>
       /\ outPc' = "sleep"
       /\ Len(frames') = Len(frames) + 1
       /\ SubSeq(frames', 1, Len(frames)) = frames
       /\ LET f == frames'[Len(frames')] IN
          /\ f.type = "output"
          /\ f.chunk = pending
          /\ Contains(f.data, Replacement)
          /\ Len(f.data) <= Len(pending)
          /\ \A b \in 0..127 : Contains(f.data, b) <=> Contains(pending, b)]_vars

\* an invalid chunk was forwarded and a later chunk after it
C20_Witness ==
  NumOutput = 2 /\ frames[1].data = <<Replacement>> /\ frames[2].data = <<97>>


NumError == Cardinality({i \in 1..Len(frames) : frames[i].type = "error"})

\* C21: when the shell wrote valid UTF-8 and all of it has been forwarded,
\* the concatenated data of the 'output' frames is that text, also when a
\* multi-byte character was split over two reads.
C21_SplitCharIntact ==
  (~InvalidUtf8(written) /\ OutputChunks(frames) = written)
  => OutputText(frames) = Decode(written)

\* C22: at most one 'error' frame is sent on a connection and none lies
\* between two 'output' frames.
C22_ErrorFramesRare ==
  /\ NumError <= 1
  /\ \A i, j, k \in 1..Len(frames) :
       (i < j /\ j < k /\ frames[i].type = "output" /\ frames[k].type = "output")
       => frames[j].type # "error"

\* the one error frame of a failed spawn has been sent, cleanup under way
C22_Witness == hpc = "close" /\ NumError = 1 /\ errAttempts = 1

\* C23: the cleanup of a spawned session starts only after both flows have
\* returned, and the end of one flow never changes the position of the other.
C23_TeardownAfterBoth ==
  /\ []((spawned /\ hpc \in {"finally", "close", "done", "raised"})
          => (outPc = "done" /\ inPc = "done"))
  /\ [][/\ (outPc # "done" /\ outPc' = "done") => inPc' = inPc
        /\ (inPc # "done" /\ inPc' = "done") => outPc' = outPc]_vars

\* the input flow has ended while the output flow still runs: no cleanup
C23_Witness ==
  hpc = "gather" /\ inPc = "done" /\ outPc = "sleep" /\ shellAlive /\ ~clientGone

\* C24: once the shell has exited the output flow stops after finitely
\* many steps, and once stopped it never reads from the PTY again.
C24_OutputFlowStops ==
  /\ (spawned /\ ~shellAlive) ~> (outPc = "done")
  /\ [][outPc = "done" => (outPc' = "done" /\ rdPos' = rdPos)]_vars

\* the output flow ended on end of stream after forwarding a chunk
C24_Witness ==
  outPc = "done" /\ hpc = "gather" /\ ~shellAlive /\ ~ioError /\ ~clientGone
    /\ NumOutput = 1 /\ buf = <<>>

\* C25: a JSON object whose type is absent or not 'input' causes no PTY
\* write and no frame, and leaves the input flow waiting.
C25_OtherTypesIgnored ==
  [][\A m \in ClientFrames :
       (m.kind = "object" /\ m.type # "input" /\ received' = Append(received, m))
       => (inPc' = "recv" /\ UNCHANGED <<ptyIn, frames, inputRecv, ioError,
                                         hpc, outPc>>)]_vars

\* an object without a type and a resize were received, the flow still waits
C25_Witness ==
  received = <<OtherFrame, ResizeFrame>> /\ inPc = "recv" /\ ptyIn = <<>>

\* C26: whenever the handler has ended, a close of the WebSocket has been
\* attempted exactly once, also when the termination step failed (no
\* process bound) or the send of the 'error' frame raised.
C26_AlwaysClosed == Returned => (closeCount = 1 /\ serverClosed)

\* spawn failed, the error send raised, the termination step raised, and
\* the transport was closed all the same
C26_Witness ==
  hpc = "raised" /\ ~spawned /\ raisedExc /\ teardownCount = 1 /\ closeCount = 1

\* ------------------------------------------------- the HTTP endpoints
\* Path.exists() of a resolved path
Exists(p) == p \in dirs \/ p \in DOMAIN files

\* a path and the directories above it
Ancestors(p) == {SubSeq(p, 1, k) : k \in 0..Len(p)}

\* the strings a client saves: "a" and U+00E9
Contents == {<<97>>, <<233>>}

Response(status, detail) ==
  [status |-> status, detail |-> detail, content |-> <<>>, files |-> <<>>]

\* GET /api/files/open. The HTTPException raised for a missing path or a
\* directory is raised inside the try block and caught by its last clause,
\* "except Exception"; UnicodeDecodeError is a ValueError and is caught by
\* the first clause.
OpenFile ==
  /\ nReq < MaxReq
  /\ \E arg \in PathArgs :
       LET r == resolve_path(arg) IN
       /\ req' = [NoReq EXCEPT !.op = "open", !.path = arg]
       /\ resolved' = r
       /\ IF ~r.ok
          THEN /\ resp' = Response(403, "outside workspace root")
               /\ effect' = NoEffect
          ELSE IF ~Exists(r.path)
          THEN /\ resp' = Response(500, "Error reading file: 404: File not found")
               /\ effect' = NoEffect
          ELSE IF r.path \notin DOMAIN files
          THEN /\ resp' = Response(500, "Error reading file: 400: Path is not a file")
               /\ effect' = NoEffect
          ELSE /\ effect' = [kind |-> "read", path |-> r.path]
               /\ resp' = IF Encode(Decode(files[r.path])) # files[r.path]
                          THEN Response(403, "codec can't decode")
                          ELSE [Response(200, "") EXCEPT
                                  !.content = Decode(files[r.path])]
  /\ nReq' = nReq + 1
  /\ UNCHANGED <<dirs, files, termVars>>

\* POST /api/files/save: resolve_path, parent.mkdir(parents=True,
\* exist_ok=True), write_text
SaveFile ==
  /\ nReq < MaxReq
  /\ \E arg \in PathArgs, content \in Contents :
       LET r == resolve_path(arg)
           parent == SubSeq(r.path, 1, Len(r.path) - 1)
       IN
       /\ req' = [NoReq EXCEPT !.op = "save", !.path = arg, !.content = content]
       /\ resolved' = r
       /\ IF ~r.ok
          THEN /\ resp' = Response(403, "outside workspace root")
               /\ effect' = NoEffect
               /\ UNCHANGED <<dirs, files>>
          ELSE IF Ancestors(parent) \cap DOMAIN files # {}
          THEN /\ resp' = Response(500, "Error saving file: mkdir")
               /\ effect' = NoEffect
               /\ UNCHANGED <<dirs, files>>
          ELSE /\ dirs' = dirs \cup Ancestors(parent)
               /\ IF r.path \in dirs
                  THEN /\ resp' = Response(500, "Error saving file: is a directory")
                       /\ effect' = NoEffect
                       /\ UNCHANGED files
                  ELSE /\ files' = (r.path :> Encode(content)) @@ files
                       /\ effect' = [kind |-> "write", path |-> r.path]
                       /\ resp' = Response(200, "ok")
  /\ nReq' = nReq + 1
  /\ UNCHANGED termVars

\* the entries os.scandir yields for a directory
Children(t) ==
  {p \in dirs \cup DOMAIN files \cup {<<W, L>>} :
     Len(p) = Len(t) + 1 /\ IsPrefix(t, p)}

\* entry.name.startswith(".") or entry.name == "__pycache__" or
\* entry.name == "venv"
Skipped(name) == name[1] = 46 \/ name = PyCache \/ name = Venv

\* one element of the listing; entry.is_dir() follows a symlink and
\* "path" is Path(entry.path).relative_to(root_path)
Item(p) ==
  [name |-> p[Len(p)], is_dir |-> Resolve(p) \in dirs,
   path |-> SubSeq(p, Len(WORKSPACE_ROOT) + 1, Len(p))]

\* str.lower()
Lower(name) ==
  [i \in 1..Len(name) |->
     IF name[i] >= 65 /\ name[i] <= 90 THEN name[i] + 32 ELSE name[i]]

\* the order of two strings
RECURSIVE LexLess(_, _)
LexLess(a, b) ==
  IF b = <<>> THEN FALSE
  ELSE IF a = <<>> THEN TRUE
  ELSE IF Head(a) # Head(b) THEN Head(a) < Head(b)
  ELSE LexLess(Tail(a), Tail(b))

\* the sort key (not x['is_dir'], x['name'].lower())
KeyLess(x, y) ==
  \/ x.is_dir /\ ~y.is_dir
  \/ x.is_dir = y.is_dir /\ LexLess(Lower(x.name), Lower(y.name))

\* items.sort(key=...): directories first, then by name
RECURSIVE SortItems(_)
SortItems(items) ==
  IF items = {} THEN <<>>
  ELSE LET m == CHOOSE x \in items : \A y \in items \ {x} : KeyLess(x, y)
       IN <<m>> \o SortItems(items \ {m})

\* the directory get_file_tree is asked for: the root when path is empty
TreeTarget(arg) ==
  IF ~arg.abs /\ arg.comps = <<>> THEN get_workspace_root
  ELSE Resolve(Join(get_workspace_root, arg))

\* GET /api/files/tree. The target is checked with
\* str(target_path).startswith(str(root_path)); the HTTPException(403) is
\* raised inside the try block and caught by "except Exception", as are
\* the errors of os.scandir and of relative_to.
GetFileTree ==
  /\ nReq < MaxReq
  /\ \E arg \in PathArgs :
       LET target == TreeTarget(arg)
           shown == {p \in Children(target) : ~Skipped(p[Len(p)])}
       IN
       /\ req' = [NoReq EXCEPT !.op = "tree", !.path = arg]
       /\ IF ~IsPrefix(Str(get_workspace_root), Str(target))
          THEN /\ resp' = Response(500, "403: Access denied")
               /\ effect' = NoEffect
          ELSE IF target \notin dirs
          THEN /\ resp' = Response(500, "scandir failed")
               /\ effect' = NoEffect
          ELSE /\ effect' = [kind |-> "scan", path |-> target]
               /\ resp' = IF shown # {} /\ ~IsPrefix(get_workspace_root, target)
                          THEN Response(500, "is not in the subpath")
                          ELSE [Response(200, "") EXCEPT
                                  !.files = SortItems({Item(p) : p \in shown})]
  /\ resolved' = NotResolved
  /\ nReq' = nReq + 1
  /\ UNCHANGED <<dirs, files, termVars>>

\* "github.com", "GitHub.com" and "x.org"
GitHubCom == <<103, 105, 116, 104, 117, 98, 46, 99, 111, 109>>
GitHubCaps == <<71, 105, 116, 72, 117, 98, 46, 99, 111, 109>>
OtherHost == <<120, 46, 111, 114, 103>>

\* a Git URL: its scheme, its host and the last segment of its path
Urls ==
  [scheme : {"https", "git"}, netloc : {GitHubCom, GitHubCaps, OtherHost},
   last : {R \o DotGit, D}]

\* folder_name: absent, or "r", "d", "..", "l", "a/b", ""
Folders ==
  {NoFolder} \cup
  {[given |-> TRUE, name |-> f] : f \in {R, D, DotDot, L, <<97, 47, 98>>, <<>>}}

\* sub in s
HasSub(sub, s) ==
  \E i \in 0..(Len(s) - Len(sub)) : SubSeq(s, i + 1, i + Len(sub)) = sub

\* scheme in ("https", "http") and "github.com" in netloc.lower()
UrlOk(url) ==
  url.scheme \in {"https", "http"} /\ HasSub(GitHubCom, Lower(url.netloc))

\* the folder name: the one given, or the last segment without ".git"
FolderName(url, folder) ==
  IF folder.given THEN folder.name
  ELSE IF IsSuffix(DotGit, url.last)
       THEN SubSeq(url.last, 1, Len(url.last) - Len(DotGit))
       ELSE url.last

\* not folder_name or "/" in folder_name or "\\" in folder_name
BadFolder(name) == name = <<>> \/ Contains(name, 47) \/ Contains(name, 92)

\* what the git child process did
GitOutcomes == {"ok", "nonzero", "timeout", "nogit", "oserror"}

\* shutil.rmtree(target_dir, ignore_errors=True)
RmTree(ds, t) == {p \in ds : ~IsPrefix(t, p)}

\* POST /api/git/clone: clone_repo and the handler's mapping of ValueError
\* to 400 and RuntimeError to 500. subprocess.run kills git when the
\* timeout expires, which may leave what git had written so far
\* (partial); a non-zero exit raises RuntimeError inside the try block, so
\* it is caught by "except Exception", which removes the directory; the
\* clauses for TimeoutExpired and FileNotFoundError remove nothing.
CloneRepo ==
  /\ nReq < MaxReq
  /\ \E url \in Urls, folder \in Folders :
       LET name == FolderName(url, folder)
           target == Resolve(WORKSPACE_ROOT \o <<name>>)
           parent == SubSeq(target, 1, Len(target) - 1)
           cloned == dirs \cup Ancestors(parent) \cup {target, Append(target, DotGit)}
       IN
       /\ req' = [NoReq EXCEPT !.op = "clone", !.url = url, !.folder = folder]
       /\ IF ~UrlOk(url)
          THEN /\ resp' = Response(400, "Invalid Git URL")
               /\ effect' = NoEffect
               /\ UNCHANGED dirs
          ELSE IF BadFolder(name)
          THEN /\ resp' = Response(400, "Invalid folder name")
               /\ effect' = NoEffect
               /\ UNCHANGED dirs
          ELSE IF ~IsPrefix(WORKSPACE_ROOT, target)
          THEN /\ resp' = Response(400, "outside workspace root")
               /\ effect' = NoEffect
               /\ UNCHANGED dirs
          ELSE IF Exists(target)
          THEN /\ resp' = Response(400, "already exists")
               /\ effect' = NoEffect
               /\ UNCHANGED dirs
          ELSE \E outcome \in GitOutcomes, partial \in BOOLEAN :
                 LET left == IF partial THEN cloned
                             ELSE dirs \cup Ancestors(parent)
                 IN
                 CASE outcome = "ok" ->
                        /\ dirs' = cloned
                        /\ effect' = [kind |-> "git", path |-> target]
                        /\ resp' = Response(200, "ok")
                   [] outcome = "nonzero" ->
                        /\ dirs' = RmTree(left, target)
                        /\ effect' = [kind |-> "git", path |-> target]
                        /\ resp' = Response(500, "Git clone failed: git clone failed")
                   [] outcome = "timeout" ->
                        /\ dirs' = left
                        /\ effect' = [kind |-> "git", path |-> target]
                        /\ resp' = Response(500, "Git clone timed out after 5 minutes")
                   [] outcome = "nogit" ->
                        /\ dirs' = dirs \cup Ancestors(parent)
                        /\ effect' = NoEffect
                        /\ resp' = Response(500, "Git command not found")
                   [] outcome = "oserror" ->
                        /\ dirs' = RmTree(left, target)
                        /\ effect' = [kind |-> "git", path |-> target]
                        /\ resp' = Response(500, "Git clone failed")
  /\ resolved' = NotResolved
  /\ nReq' = nReq + 1
  /\ UNCHANGED <<files, termVars>>

ApiNext ==
  \/ OpenFile
  \/ SaveFile
  \/ GetFileTree
  \/ CloneRepo

\* the HTTP endpoints, one request at a time
ApiSpec == Init /\ [][ApiNext]_vars

\* C27: open_file answers a path of the workspace that does not exist with
\* 404 and one that is a directory with 400.
C27_OpenStatus ==
  (req.op = "open" /\ resolved.ok)
  => /\ ~Exists(resolved.path) => resp.status = 404
     /\ resolved.path \in dirs => resp.status = 400

\* C28: the directory get_file_tree scans is the workspace root or lies
\* under it; for a target outside the root the request is refused and no
\* directory is scanned.
C28_TreeConfined ==
  /\ effect.kind = "scan" => IsPrefix(WORKSPACE_ROOT, effect.path)
  /\ (req.op = "tree" /\ ~IsPrefix(WORKSPACE_ROOT, TreeTarget(req.path)))
     => (resp.status # 200 /\ resp.files = <<>> /\ effect.kind = "none")

\* C29: after open_file or save_file, resolve_path either returned a
\* resolved path that is the workspace root or lies under it, or raised,
\* and then the answer is 403 and no file was read or written; a file
\* read or written lies under the root, and nothing outside the root is
\* ever created or changed.
C29_ResolveConfined ==
  /\ req.op \in {"open", "save"}
     => /\ resolved.called
        /\ resolved.ok => (IsPrefix(WORKSPACE_ROOT, resolved.path)
                           /\ Resolve(resolved.path) = resolved.path)
        /\ ~resolved.ok => (resp.status = 403 /\ effect.kind = "none")
        /\ effect.kind \in {"read", "write"}
           => IsPrefix(WORKSPACE_ROOT, effect.path)
  /\ \A p \in DOMAIN files :
       ~IsPrefix(WORKSPACE_ROOT, p)
       => (p \in DOMAIN InitFiles /\ files[p] = InitFiles[p])
  /\ \A p \in dirs : ~IsPrefix(WORKSPACE_ROOT, p) => p \in InitDirs

\* a file of the sibling directory /w2 was asked for by its absolute path
\* and refused
C29_Witness ==
  /\ req.op = "open"
  /\ req.path = [abs |-> TRUE, comps |-> <<W2, S>>]
  /\ ~resolved.ok
  /\ resp.status = 403
  /\ effect.kind = "none"

\* C30: when clone_repo raised RuntimeError after git was started, the
\* target directory does not exist, so a retry is not refused as
\* "already exists".
C30_NoPartialClone ==
  (req.op = "clone" /\ effect.kind = "git" /\ resp.status = 500)
  => ~Exists(effect.path)

====
